---- MODULE Spec2Model ----
(***************************************************************************)
(* Model of the cluster job lifecycle of stormdb (src/stormdb/cluster.py): *)
(* ClusterJob (construction, submit, status, kill) and ClusterBatch        *)
(* (add_job, submit), together with the three grid-engine command lines    *)
(* they shell out to (qsub, qstat | grep | awk, qdel) and the temporary    *)
(* submission script on disk.                                              *)
(*                                                                         *)
(* Text is modelled as sequences of one-character strings, so that grep's  *)
(* substring match, awk's field selection, Python's rstrip/split and the   *)
(* regular expression (\d+) are computed the way the code computes them.   *)
(***************************************************************************)
EXTENDS Integers, Sequences, FiniteSets, TLC

VARIABLES
    joblist,   \* ClusterBatch._joblist: the ClusterJob objects, in order
    files,     \* the file system: path -> content of the script files
    cli,       \* qsub/qdel invocations made by the latest call, in order
    raised,    \* exception raised by the latest call ("none" if it returned)
    last,      \* the latest call: operation, job index, arguments, poll seen
    preCli,    \* the job object as it was when the latest call reached its CLI
    bpc,       \* ClusterBatch.submit loop: index of the next job (0: no loop)
    bfake,     \* ClusterBatch.submit loop: its fake argument
    kloop,     \* ClusterBatch.kill loop: <<>>, or its index and jobid argument
    procs      \* processes submitting at the same time: where each one is

vars == <<joblist, files, cli, raised, last, preCli, bpc, bfake, kloop, procs>>

----------------------------------------------------------------------------
(* Bounds *)

MaxJobs == 2      \* jobs added to the batch
MaxLines == 2     \* lines in one qstat listing

----------------------------------------------------------------------------
(* Text helpers *)

SP == " "
NL == "\n"
Digits == {"0", "1", "2", "3", "4", "5", "6", "7", "8", "9"}
Whitespace == {SP, NL, "\t", "\r"}

\* str.rstrip(): drop trailing whitespace
RECURSIVE RStrip(_)
RStrip(s) ==
    IF Len(s) = 0 THEN s
    ELSE IF s[Len(s)] \in Whitespace THEN RStrip(SubSeq(s, 1, Len(s) - 1))
    ELSE s

\* str.split(sep) for a one-character separator: every occurrence splits
RECURSIVE SplitAcc(_, _, _)
SplitAcc(s, sep, cur) ==
    IF Len(s) = 0 THEN <<cur>>
    ELSE IF Head(s) = sep THEN <<cur>> \o SplitAcc(Tail(s), sep, <<>>)
    ELSE SplitAcc(Tail(s), sep, Append(cur, Head(s)))

Split(s, sep) == SplitAcc(s, sep, <<>>)

\* grep's match of a pattern without metacharacters: substring
IsSubstr(p, s) ==
    \E i \in 0..(Len(s) - Len(p)) : SubSeq(s, i + 1, i + Len(p)) = p

\* re.search('(\d+)', s).group(1): the first maximal run of digits;
\* <<>> stands for "no match" (m is None)
RECURSIVE DigitRun(_)
DigitRun(s) ==
    IF Len(s) = 0 \/ Head(s) \notin Digits THEN <<>>
    ELSE <<Head(s)>> \o DigitRun(Tail(s))

RECURSIVE FirstDigits(_)
FirstDigits(s) ==
    IF Len(s) = 0 THEN <<>>
    ELSE IF Head(s) \in Digits THEN DigitRun(s)
    ELSE FirstDigits(Tail(s))

----------------------------------------------------------------------------
(* The grid engine's status listing and the query pipeline *)

\* one line of `qstat -u USER`, as its whitespace-separated fields:
\* job-ID prior name user state date time queue slots
QLine(id, name, state, rest) == <<id, <<"p">>, name, <<"u">>, state>> \o rest

QstatLines ==
    { QLine(<<"1", "2">>, <<"j">>, <<"r">>,
            << <<"d">>, <<"t">>, <<"q", "@", "h", ".", "x">>, <<"4">> >>),
      QLine(<<"1", "2">>, <<"j">>, <<"q", "w">>,
            << <<"d">>, <<"t">>, <<"4">> >>),
      QLine(<<"7">>, <<"N", "o", "n", "e">>, <<"E", "q", "w">>,
            << <<"d">>, <<"t">>, <<"4">> >>),
      QLine(<<"1", "2">>, <<"j">>, <<"r">>,
            << <<"d">>, <<"t">>, <<"q", "h">>, <<"4">> >>),
      QLine(<<"1">>, <<"j">>, <<"q", "w">>, << <<"d">>, <<"t">> >>) }

RECURSIVE SeqsUpTo(_, _)
SeqsUpTo(S, n) ==
    IF n = 0 THEN {<<>>}
    ELSE LET shorter == SeqsUpTo(S, n - 1)
         IN  shorter \cup
             {Append(q, x) : q \in {r \in shorter : Len(r) = n - 1}, x \in S}

Listings == SeqsUpTo(QstatLines, MaxLines)

\* the job identifier as format() prints it; None prints as "None"
None == <<"None">>
FormatJobid(jobid) == IF jobid = None THEN <<"N", "o", "n", "e">> ELSE jobid

\* grep PATTERN: a line passes when the pattern occurs anywhere in it
GrepLine(pat, line) == \E k \in 1..Len(line) : IsSubstr(pat, line[k])

\* awk's $k: the k-th field, empty when the line has fewer fields
Field(line, k) == IF k <= Len(line) THEN line[k] ELSE <<>>

\* awk '{print $5, $8}' on the lines grep lets through, each ended by \n
RECURSIVE GrepAwk(_, _)
GrepAwk(pat, listing) ==
    IF Len(listing) = 0 THEN <<>>
    ELSE (IF GrepLine(pat, Head(listing))
          THEN Field(Head(listing), 5) \o <<SP>> \o Field(Head(listing), 8)
               \o <<NL>>
          ELSE <<>>)
         \o GrepAwk(pat, Tail(listing))

\* Cluster._query(...)[0]: output.rstrip().split('\n')[0]
Query(jobid, listing) ==
    Split(RStrip(GrepAwk(FormatJobid(jobid), listing)), NL)[1]

----------------------------------------------------------------------------
(* ClusterJob *)

Cmds == {"sleep 5"}

DefaultShFile == "~/submit_job.sh"
OtherShFile == "~/other.sh"
ShFiles == {DefaultShFile, OtherShFile}

\* the messages _status_msg takes: the format string and its arguments
Msg(text, a, b) == [text |-> text, a |-> a, b |-> b]
MsgNotSubmitted == Msg("Job not submitted yet", <<>>, <<>>)
MsgSubmissionFailed ==
    Msg("Submission failed, see log for output errors!", <<>>, <<>>)
MsgCompleted == Msg("Job completed", <<>>, <<>>)
MsgRunning(exechost, queuename) ==
    Msg("Running on {0} ({1})", exechost, queuename)
MsgWaiting == Msg("Waiting in the queue", <<>>, <<>>)
MsgOdd(runcode) ==
    Msg("Queue status odd (qstat says: {0}), please check!", runcode, <<>>)
MsgKilled == Msg("Job was previously killed.", <<>>, <<>>)

\* ClusterJob.__init__: the object a successful construction leaves.
\* seenRunning is a history flag (not a field of the object): some poll of
\* this handle has read the run-state code 'r'.
NewJob(cmd, cleanup) ==
    [cmd |-> cmd,
     qsub_script |-> [exec_cmd |-> cmd],
     jobid |-> None,
     running |-> FALSE,
     waiting |-> FALSE,
     completed |-> FALSE,
     submitted |-> FALSE,
     status_msg |-> MsgNotSubmitted,
     cleanup_qsub_job |-> cleanup,
     seenRunning |-> FALSE]

----------------------------------------------------------------------------
(* ClusterJob.__init__ *)

\* an optional argument: <<>> for Python's None, <<v>> for the value v
Absent == <<>>
Given(v) == <<v>>

\* re.split('(\d+)', s): the text before, between and after the runs of
\* digits, with the runs themselves in between
RECURSIVE NonDigitRun(_)
NonDigitRun(s) ==
    IF Len(s) = 0 \/ Head(s) \in Digits THEN <<>>
    ELSE <<Head(s)>> \o NonDigitRun(Tail(s))

RECURSIVE ReSplitDigits(_)
ReSplitDigits(s) ==
    LET text == NonDigitRun(s)
        rest == SubSeq(s, Len(text) + 1, Len(s))
    IN  IF Len(rest) = 0 THEN <<text>>
        ELSE LET run == DigitRun(rest)
             IN  <<text, run>>
                 \o ReSplitDigits(SubSeq(rest, Len(run) + 1, Len(rest)))

\* float(s) of a string of decimal digits
DigitSeq == <<"0", "1", "2", "3", "4", "5", "6", "7", "8", "9">>
DigitVal(c) == (CHOOSE i \in 1..Len(DigitSeq) : DigitSeq[i] = c) - 1

RECURSIVE ToNat(_)
ToNat(s) ==
    IF Len(s) = 0 THEN 0
    ELSE ToNat(SubSeq(s, 1, Len(s) - 1)) * 10 + DigitVal(s[Len(s)])

\* str.lower() on the letters memory units are written with
LowerChar(c) ==
    CASE c = "K" -> "k" [] c = "M" -> "m" [] c = "G" -> "g" [] c = "T" -> "t"
      [] OTHER -> c
Lower(s) == [i \in 1..Len(s) |-> LowerChar(s[i])]

\* units = dict(k=1e3, m=1e6, g=1e9, t=1e12), each value written as the
\* power of 1e3 it is
Units == (<<"k">> :> 1) @@ (<<"m">> :> 2) @@ (<<"g">> :> 3) @@ (<<"t">> :> 4)

RECURSIVE Pow(_, _)
Pow(b, n) == IF n = 0 THEN 1 ELSE b * Pow(b, n - 1)

Thousand == 1000

\* units[a] / units[b] as a fraction in lowest terms
UnitRatio(a, b) ==
    IF Units[a] >= Units[b]
    THEN [num |-> Pow(Thousand, Units[a] - Units[b]), den |-> 1]
    ELSE [num |-> 1, den |-> Pow(Thousand, Units[b] - Units[a])]

\* math.ceil of the quotient of two positive numbers
Ceil(num, den) == (num + den - 1) \div den

\* the result of a step of the constructor: the exception it raised
\* ("none" if it went on) and the value it computed
Step(exc, val) == [exc |-> exc, val |-> val]

\* what the grid engine is configured with: `qconf -sql`, and for each
\* queue the h_vmem value and the pe_list line of `qconf -sq`
Queues == {"short.q", "long.q", "highmem.q"}
MemLimits ==
    ("short.q" :> <<"8", "G">>) @@ ("long.q" :> <<"5", "1", "2", "M">>)
    @@ ("highmem.q" :> <<"2", "T">>)
PeLines ==
    ("short.q" :> <<"pe_list", "make", "threaded">>)
    @@ ("long.q" :> <<"pe_list", "NONE">>)
    @@ ("highmem.q" :> <<"pe_list", "threaded">>)

\* the directories of the file system and the ones the user may write in
ExistingDirs == {"/tmp", "/"}
WritableDirs == {"/tmp"}

\* the environment of one call: does the database accept the login, can
\* the current directory be written, and is there a writable entry named
\* "cwd" in it
Envs == [login_ok : BOOLEAN, cwd_writable : BOOLEAN, cwd_entry : BOOLEAN]

\* os.path.exists(path) and os.access(path, os.W_OK); the only relative
\* path the constructor is given is "cwd"
PathExists(path, env) ==
    IF path = "cwd" THEN env.cwd_entry ELSE path \in ExistingDirs
OsAccessW(path, env) ==
    IF path = "cwd" THEN env.cwd_entry ELSE path \in WritableDirs

\* base.check_destination_writable(os.path.join(test_dir, 'foo'))
CheckDestinationWritable(test_dir, env) == OsAccessW(test_dir, env)

\* base.enforce_path_exists(test_dir): the exception it raises
EnforcePathExists(test_dir, env) ==
    IF ~PathExists(test_dir, env) THEN "IOError"
    ELSE IF ~CheckDestinationWritable(test_dir, env) THEN "IOError"
    ELSE "none"

\* Cluster.get_memlimit_per_process(queue), for a queue that exists
GetMemlimitPerProcess(queue) == MemLimits[queue]

\* DeriveThreads with the quotient rounded down
DeriveThreads_Floor(total_memory, limit) ==
    LET tot == ReSplitDigits(total_memory)
        lim == ReSplitDigits(limit)
    IN  IF Len(tot) # 3 \/ Len(lim) # 3 THEN Step("ValueError", 0)
        ELSE IF ToNat(lim[2]) = 0 THEN Step("ZeroDivisionError", 0)
        ELSE IF tot[3] # lim[3]
        THEN IF Lower(tot[3]) \notin DOMAIN Units
                \/ Lower(lim[3]) \notin DOMAIN Units
             THEN Step("ValueError", 0)
             ELSE LET ratio == UnitRatio(Lower(tot[3]), Lower(lim[3]))
                  IN  Step("none", (ratio.num * ToNat(tot[2]))
                                   \div (ratio.den * ToNat(lim[2])))
        ELSE Step("none", ToNat(tot[2]) \div ToNat(lim[2]))

\* the thread count computed from total_memory and the queue's limit:
\* _, totmem, totmem_unit = re.split(...), likewise memlim, then
\* int(math.ceil(ratio * float(totmem) / float(memlim)))
DeriveThreads(total_memory, limit) ==
    LET tot == ReSplitDigits(total_memory)
        lim == ReSplitDigits(limit)
    IN  IF Len(tot) # 3 \/ Len(lim) # 3 THEN Step("ValueError", 0)
        ELSE IF ToNat(lim[2]) = 0 THEN Step("ZeroDivisionError", 0)
        ELSE IF tot[3] # lim[3]
        THEN IF Lower(tot[3]) \notin DOMAIN Units
                \/ Lower(lim[3]) \notin DOMAIN Units
             THEN Step("ValueError", 0)        \* except KeyError
             ELSE LET ratio == UnitRatio(Lower(tot[3]), Lower(lim[3]))
                  IN  Step("none", Ceil(ratio.num * ToNat(tot[2]),
                                        ratio.den * ToNat(lim[2])))
        ELSE Step("none", Ceil(ToNat(tot[2]), ToNat(lim[2])))

\* ThreadCount without the test of n_threads
ThreadCount_AnyThreads(req) ==
    IF req.total_memory = Absent THEN Step("none", req.n_threads)
    ELSE DeriveThreads(req.total_memory[1], GetMemlimitPerProcess(req.queue))

\* self.n_threads after the total_memory block
ThreadCount(req) ==
    IF req.total_memory = Absent THEN Step("none", req.n_threads)
    ELSE IF req.n_threads > 1 THEN Step("ValueError", 0)
    ELSE DeriveThreads(req.total_memory[1], GetMemlimitPerProcess(req.queue))

\* ThreadedFlag without the check of the queue's parallel environments
ThreadedFlag_NoPeCheck(queue, n_threads) ==
    IF n_threads > 1
    THEN Step("none", <<"#$", "-pe", "threaded", n_threads>>)
    ELSE Step("none", <<>>)

\* Cluster._check_parallel_env(queue, 'threaded') and opt_threaded_flag
ThreadedFlag(queue, n_threads) ==
    IF n_threads > 1
    THEN IF \E k \in 2..Len(PeLines[queue]) : PeLines[queue][k] = "threaded"
         THEN Step("none", <<"#$", "-pe", "threaded", n_threads>>)
         ELSE Step("ValueError", <<>>)
    ELSE Step("none", <<>>)

\* CwdFlag that checks an explicit directory with os.access only
CwdFlag_NoEnforce(working_dir, env) ==
    IF working_dir = Absent THEN Step("none", <<>>)
    ELSE IF ~OsAccessW(working_dir[1], env) THEN Step("RuntimeError", <<>>)
    ELSE IF working_dir[1] = "cwd" THEN Step("none", <<"#$", "-cwd">>)
    ELSE Step("none", <<"#$", "-wd", working_dir[1]>>)

\* cwd_flag and the checks of working_dir
CwdFlag(working_dir, env) ==
    IF working_dir = Absent THEN Step("none", <<>>)
    ELSE IF working_dir[1] = "cwd"
    THEN IF ~OsAccessW(working_dir[1], env) THEN Step("RuntimeError", <<>>)
         ELSE Step("none", <<"#$", "-cwd">>)
    ELSE IF EnforcePathExists(working_dir[1], env) # "none"
    THEN Step(EnforcePathExists(working_dir[1], env), <<>>)
    ELSE IF ~OsAccessW(working_dir[1], env) THEN Step("RuntimeError", <<>>)
    ELSE Step("none", <<"#$", "-wd", working_dir[1]>>)

\* log_name_prefix and the check of log_dir
LogNamePrefix(log_dir, job_name, env) ==
    IF log_dir = Absent THEN Step("none", <<job_name>>)
    ELSE IF ~PathExists(log_dir[1], env) THEN Step("ValueError", <<>>)
    ELSE Step("none", <<log_dir[1], job_name>>)

\* ClusterJob._create_qsub_script: the fields QSUB_SCHEMA is filled with
CreateQsubScript(cmd, job_name, cwd_flag, opt_threaded_flag, log_name_prefix, queue) ==
    [exec_cmd |-> cmd, job_name |-> job_name, cwd_flag |-> cwd_flag,
     opt_threaded_flag |-> opt_threaded_flag,
     log_name_prefix |-> log_name_prefix, queue |-> queue]

\* the arguments of ClusterJob(...); extra: keywords __init__ does not have
Request(cmd, proj_name, queue, total_memory, n_threads, working_dir, log_dir, extra) ==
    [cmd |-> cmd, proj_name |-> proj_name, queue |-> queue,
     total_memory |-> total_memory, n_threads |-> n_threads,
     working_dir |-> working_dir, log_dir |-> log_dir, extra |-> extra]

DefaultJobName == "py-wrapper"

Failed(exc) == [exc |-> exc, job |-> Absent]

\* ClusterJob.__init__: the exception raised, or the object constructed
ClusterJobInit(req, env) ==
    IF req.extra # {} THEN Failed("TypeError")
    ELSE IF req.cmd = Absent \/ req.cmd = Given("") THEN Failed("ValueError")
    ELSE IF req.proj_name = Absent \/ req.proj_name = Given("")
    THEN Failed("ValueError")
    ELSE IF ~env.login_ok THEN Failed("DBError")
    ELSE IF req.queue \notin Queues THEN Failed("ValueError")
    ELSE
      LET threads == ThreadCount(req) IN
      IF threads.exc # "none" THEN Failed(threads.exc)
      ELSE
        LET pe == ThreadedFlag(req.queue, threads.val) IN
        IF pe.exc # "none" THEN Failed(pe.exc)
        ELSE
          LET cwd == CwdFlag(req.working_dir, env) IN
          IF cwd.exc # "none" THEN Failed(cwd.exc)
          ELSE
            LET log == LogNamePrefix(req.log_dir, DefaultJobName, env) IN
            IF log.exc # "none" THEN Failed(log.exc)
            ELSE
              [exc |-> "none",
               job |-> Given(
                  [queue |-> req.queue,
                   n_threads |-> threads.val,
                   total_memory |-> req.total_memory,
                   proj_name |-> req.proj_name[1]]
                  @@ [NewJob(req.cmd[1], TRUE)
                        EXCEPT !.qsub_script =
                           CreateQsubScript(req.cmd[1], DefaultJobName,
                                            cwd.val, pe.val, log.val,
                                            req.queue)])]

----------------------------------------------------------------------------
(* ClusterJob._check_status *)

Outcome(exc, job, poll) == [exc |-> exc, job |-> job, poll |-> poll]

\* the setter of cmd with an assignment in place of the raise
SetCmd_Assigns(job, value) ==
    Outcome("none", [job EXCEPT !.cmd = value], "none")

\* the setter of ClusterJob.cmd: it raises, whatever the value
SetCmd(job, value) == Outcome("ValueError", job, "none")

\* the branch of _check_status taken when the query returned a line
ParseStatusLine(job, output) ==
    LET parts == Split(output, SP) IN
    IF Len(parts) # 2
    THEN Outcome("ValueError", job, "raise")   \* runcode, hostname = ...
    ELSE
      LET runcode == parts[1]
          hostname == parts[2]
      IN
      IF runcode = <<"r">>
      THEN LET hp == Split(hostname, "@") IN
           IF Len(hp) # 2
           THEN Outcome("ValueError", job, "raise")  \* queuename, exechost
           ELSE Outcome("none",
                        [job EXCEPT !.running = TRUE,
                                    !.waiting = FALSE,
                                    !.completed = FALSE,
                                    !.status_msg =
                                        MsgRunning(Split(hp[2], ".")[1], hp[1]),
                                    !.seenRunning = TRUE],
                        "line")
      ELSE IF runcode = <<"q", "w">>
      THEN Outcome("none",
                   [job EXCEPT !.running = FALSE,
                               !.waiting = TRUE,
                               !.completed = FALSE,
                               !.status_msg = MsgWaiting],
                   "line")
      ELSE Outcome("none",
                   [job EXCEPT !.running = FALSE,
                               !.waiting = TRUE,
                               !.completed = FALSE,
                               !.status_msg = MsgOdd(runcode)],
                   "line")

\* NoStatusLine with the completion branch lost
NoStatusLine_NeverCompletes(job) ==
    IF job.submitted /\ ~job.running /\ ~job.completed /\ ~job.waiting
    THEN Outcome("none", [job EXCEPT !.status_msg = MsgSubmissionFailed],
                 "empty")
    ELSE Outcome("none", job, "empty")

\* the branch of _check_status taken when the query returned nothing
NoStatusLine(job) ==
    IF job.submitted /\ ~job.running /\ ~job.completed /\ ~job.waiting
    THEN Outcome("none", [job EXCEPT !.status_msg = MsgSubmissionFailed],
                 "empty")
    ELSE IF job.submitted /\ ~job.completed /\ job.running
    THEN Outcome("none",
                 [job EXCEPT !.status_msg = MsgCompleted,
                             !.running = FALSE,
                             !.waiting = FALSE,
                             !.completed = TRUE],
                 "empty")
    ELSE Outcome("none", job, "empty")

\* CheckStatus without the early return for a completed job
CheckStatus_PollsCompleted(job, listing) ==
    LET output == Query(job.jobid, listing) IN
    IF Len(output) = 0
    THEN NoStatusLine(job)
    ELSE ParseStatusLine(job, output)

\* ClusterJob._check_status
CheckStatus(job, listing) ==
    IF job.completed
    THEN Outcome("none", job, "skipped")
    ELSE LET output == Query(job.jobid, listing) IN
         IF Len(output) = 0
         THEN NoStatusLine(job)
         ELSE ParseStatusLine(job, output)

----------------------------------------------------------------------------
(* The submission and cancellation command lines *)

\* what one run of qsub gives back: exit status and combined output
QsubOutputs ==
    { <<"j", "o", "b", SP, "1", SP, "x", "3", NL>>,
      <<"j", "o", "b", SP, "1", "2", NL>>,
      <<"o", "k", NL>> }

QsubResults ==
    {[rc |-> 1, out |-> <<>>]} \cup {[rc |-> 0, out |-> o] : o \in QsubOutputs}

QdelResults == {0, 1}    \* exit status of qdel

NoFile == <<>>
StaleScript == [exec_cmd |-> "stale"]

\* one invocation: the tool, its argument, the script file it was handed
\* (qsub) and its exit status
QsubCall(path, content, rc) ==
    [tool |-> "qsub", arg |-> path, script |-> content, rc |-> rc]
QdelCall(jobid, rc) ==
    [tool |-> "qdel", arg |-> FormatJobid(jobid), script |-> NoFile, rc |-> rc]

\* ClusterJob._write_qsub_job(): always called with its default path
WriteQsubJob(fs, job) == [fs EXCEPT ![DefaultShFile] = <<job.qsub_script>>]

\* ClusterJob._delete_qsub_job(): always called with its default path
DeleteQsubJob(fs) == [fs EXCEPT ![DefaultShFile] = NoFile]

CallResult(exc, job, fs, calls, pre, poll) ==
    [exc |-> exc, job |-> job, files |-> fs, cli |-> calls, pre |-> pre,
     poll |-> poll]

\* ClusterJob.submit, after _check_status let it through to the qsub call
SubmitToEngine(job, sh_file, res, fs, poll) ==
    LET written == WriteQsubJob(fs, job)
        calls == <<QsubCall(sh_file, written[sh_file], res.rc)>>
        m == FirstDigits(RStrip(res.out))
    IN
    IF res.rc # 0
    THEN CallResult("RuntimeError", job, written, calls, <<job>>, poll)
    ELSE IF m = <<>>
    THEN CallResult("AttributeError", job, written, calls, <<job>>, poll)
    ELSE CallResult("none",
                    [job EXCEPT !.jobid = m, !.submitted = TRUE],
                    IF job.cleanup_qsub_job THEN DeleteQsubJob(written)
                                            ELSE written,
                    calls, <<job>>, poll)

\* Submit without the test of _submitted
Submit_NoSubmittedCheck(job, fake, sh_file, listing, res, fs) ==
    LET st == CheckStatus(job, listing) IN
    IF st.exc # "none"
    THEN CallResult(st.exc, st.job, fs, <<>>, <<>>, st.poll)
    ELSE IF fake
    THEN CallResult("none", st.job, fs, <<>>, <<>>, st.poll)
    ELSE SubmitToEngine(st.job, sh_file, res, fs, st.poll)

\* Submit with the test of fake after the script is written
Submit_FakeWritesScript(job, fake, sh_file, listing, res, fs) ==
    LET st == CheckStatus(job, listing) IN
    IF st.exc # "none"
    THEN CallResult(st.exc, st.job, fs, <<>>, <<>>, st.poll)
    ELSE IF st.job.submitted
    THEN CallResult("none", st.job, fs, <<>>, <<>>, st.poll)
    ELSE IF fake
    THEN CallResult("none", st.job, WriteQsubJob(fs, st.job), <<>>, <<>>,
                    st.poll)
    ELSE SubmitToEngine(st.job, sh_file, res, fs, st.poll)

\* ClusterJob.submit
Submit(job, fake, sh_file, listing, res, fs) ==
    LET st == CheckStatus(job, listing) IN
    IF st.exc # "none"
    THEN CallResult(st.exc, st.job, fs, <<>>, <<>>, st.poll)
    ELSE IF st.job.submitted
    THEN CallResult("none", st.job, fs, <<>>, <<>>, st.poll)
    ELSE IF fake
    THEN CallResult("none", st.job, fs, <<>>, <<>>, st.poll)
    ELSE SubmitToEngine(st.job, sh_file, res, fs, st.poll)

\* ClusterJob.status
Status(job, listing, fs) ==
    LET st == CheckStatus(job, listing) IN
    CallResult(st.exc, st.job, fs, <<>>, <<>>, st.poll)

\* Kill that sets the message but leaves the flags as they are
Kill_KeepFlags(job, listing, rc, fs) ==
    LET st == CheckStatus(job, listing) IN
    IF st.exc # "none"
    THEN CallResult(st.exc, st.job, fs, <<>>, <<>>, st.poll)
    ELSE IF st.job.submitted /\ (st.job.running \/ st.job.waiting)
    THEN IF rc # 0
         THEN CallResult("RuntimeError", st.job, fs,
                         <<QdelCall(st.job.jobid, rc)>>, <<st.job>>, st.poll)
         ELSE CallResult("none",
                         [st.job EXCEPT !.status_msg = MsgKilled],
                         fs, <<QdelCall(st.job.jobid, rc)>>, <<st.job>>,
                         st.poll)
    ELSE CallResult("none", st.job, fs, <<>>, <<>>, st.poll)

\* Kill that does not look at the exit status of qdel
Kill_IgnoresExitStatus(job, listing, rc, fs) ==
    LET st == CheckStatus(job, listing) IN
    IF st.exc # "none"
    THEN CallResult(st.exc, st.job, fs, <<>>, <<>>, st.poll)
    ELSE IF st.job.submitted /\ (st.job.running \/ st.job.waiting)
    THEN CallResult("none",
                    [st.job EXCEPT !.running = FALSE,
                                   !.waiting = FALSE,
                                   !.completed = FALSE,
                                   !.status_msg = MsgKilled],
                    fs, <<QdelCall(st.job.jobid, rc)>>, <<st.job>>, st.poll)
    ELSE CallResult("none", st.job, fs, <<>>, <<>>, st.poll)

\* ClusterJob.kill
Kill(job, listing, rc, fs) ==
    LET st == CheckStatus(job, listing) IN
    IF st.exc # "none"
    THEN CallResult(st.exc, st.job, fs, <<>>, <<>>, st.poll)
    ELSE IF st.job.submitted /\ (st.job.running \/ st.job.waiting)
    THEN IF rc # 0
         THEN CallResult("RuntimeError", st.job, fs,
                         <<QdelCall(st.job.jobid, rc)>>, <<st.job>>, st.poll)
         ELSE CallResult("none",
                         [st.job EXCEPT !.running = FALSE,
                                        !.waiting = FALSE,
                                        !.completed = FALSE,
                                        !.status_msg = MsgKilled],
                         fs, <<QdelCall(st.job.jobid, rc)>>, <<st.job>>, st.poll)
    ELSE CallResult("none", st.job, fs, <<>>, <<>>, st.poll)

----------------------------------------------------------------------------
(* State machine *)

\* via: the call was made by the caller ("job") or by a loop of ClusterBatch
Call(op, j, fake, poll) ==
    [op |-> op, j |-> j, fake |-> fake, poll |-> poll, via |-> "job"]
BatchCall(op, j, fake, poll) ==
    [op |-> op, j |-> j, fake |-> fake, poll |-> poll, via |-> "batch"]

\* the identifiers a handle can hold
JobidValues ==
    {None} \cup ({FirstDigits(RStrip(o)) : o \in QsubOutputs} \ {<<>>})

\* One listing for each distinct output the query pipeline can give for a
\* job identifier: a poll depends on the listing only through
\* Query(jobid, listing), so these listings give every outcome of a poll.
PollListings ==
    [id \in JobidValues |->
        {CHOOSE l \in Listings : Query(id, l) = o :
            o \in {Query(id, l) : l \in Listings}}]

\* qsub cannot accept a script file that is not there
QsubPossible(job, sh_file, res, fs) ==
    WriteQsubJob(fs, job)[sh_file] = NoFile => res.rc # 0

\* the effect of a call on job j that gave result r
Apply(j, r, call) ==
    /\ joblist' = [joblist EXCEPT ![j] = r.job]
    /\ files' = r.files
    /\ cli' = r.cli
    /\ raised' = r.exc
    /\ preCli' = r.pre
    /\ last' = call

\* does submit(fake) with this listing get as far as the qsub call?
ReachesQsub(job, fake, listing) ==
    LET st == CheckStatus(job, listing)
    IN  st.exc = "none" /\ ~st.job.submitted /\ ~fake

\* does kill() with this listing get as far as the qdel call?
ReachesQdel(job, listing) ==
    LET st == CheckStatus(job, listing)
    IN  st.exc = "none" /\ st.job.submitted
        /\ (st.job.running \/ st.job.waiting)

\* job.submit(fake, sh_file) on job j; sh_file and the qsub result are
\* inputs only of the calls that reach qsub
SubmitCall(j, fake, via) ==
    \E listing \in PollListings[joblist[j].jobid] :
       IF ReachesQsub(joblist[j], fake, listing)
       THEN \E sh_file \in ShFiles, res \in QsubResults :
               /\ QsubPossible(joblist[j], sh_file, res, files)
               /\ LET r == Submit(joblist[j], fake, sh_file, listing, res,
                                  files)
                  IN  Apply(j, r, [Call("submit", j, fake, r.poll)
                                      EXCEPT !.via = via])
       ELSE LET r == Submit(joblist[j], fake, DefaultShFile, listing,
                            [rc |-> 1, out |-> <<>>], files)
            IN  Apply(j, r, [Call("submit", j, fake, r.poll)
                                EXCEPT !.via = via])

\* the state after ClusterJob(cmd, ..., cleanup=cleanup) returned
Init ==
    /\ \E cmd \in Cmds, cleanup \in BOOLEAN :
          joblist = <<NewJob(cmd, cleanup)>>
    /\ files \in {[p \in ShFiles |-> NoFile],
                  [p \in ShFiles |->
                      IF p = OtherShFile THEN <<StaleScript>> ELSE NoFile]}
    /\ cli = <<>>
    /\ raised = "none"
    /\ last = Call("init", 1, FALSE, "none")
    /\ preCli = <<>>
    /\ bpc = 0
    /\ bfake = FALSE
    /\ kloop = <<>>
    /\ procs = <<>>

\* job.submit(fake, sh_file) on one job
JobSubmit ==
    /\ bpc = 0
    /\ \E j \in 1..Len(joblist), fake \in BOOLEAN : SubmitCall(j, fake, "job")
    /\ UNCHANGED <<bpc, bfake, kloop, procs>>

\* job.status on one job
JobStatus ==
    /\ bpc = 0
    /\ \E j \in 1..Len(joblist) :
       \E listing \in PollListings[joblist[j].jobid] :
          LET r == Status(joblist[j], listing, files)
          IN  Apply(j, r, Call("status", j, FALSE, r.poll))
    /\ UNCHANGED <<bpc, bfake, kloop, procs>>

\* job.kill() on job j; the exit status of qdel is an input only of the
\* calls that reach qdel
KillCall(j, via) ==
    \E listing \in PollListings[joblist[j].jobid] :
       IF ReachesQdel(joblist[j], listing)
       THEN \E rc \in QdelResults :
               LET r == Kill(joblist[j], listing, rc, files)
               IN  Apply(j, r, [Call("kill", j, FALSE, r.poll)
                                   EXCEPT !.via = via])
       ELSE LET r == Kill(joblist[j], listing, 1, files)
            IN  Apply(j, r, [Call("kill", j, FALSE, r.poll)
                                EXCEPT !.via = via])

\* job.kill() on one job
JobKill ==
    /\ bpc = 0
    /\ \E j \in 1..Len(joblist) : KillCall(j, "job")
    /\ UNCHANGED <<bpc, bfake, kloop, procs>>

\* the values a caller tries to assign to job.cmd
CmdValues == Cmds \cup {"ls"}

\* job.cmd = value on one job
JobSetCmd ==
    /\ bpc = 0
    /\ \E j \in 1..Len(joblist), value \in CmdValues :
          LET r == SetCmd(joblist[j], value)
          IN  /\ joblist' = [joblist EXCEPT ![j] = r.job]
              /\ raised' = r.exc
              /\ last' = Call("set_cmd", j, FALSE, "none")
    /\ cli' = <<>>
    /\ preCli' = <<>>
    /\ UNCHANGED <<files, bpc, bfake, kloop, procs>>

Next ==
    \/ JobSubmit
    \/ JobStatus
    \/ JobKill
    \/ JobSetCmd

Spec == Init /\ [][Next]_vars

\* job.status on a submitted job whose entry has left the listing: the
\* listing has no line at all, so the query returns nothing
JobStatusAbsent ==
    /\ bpc = 0
    /\ \E j \in 1..Len(joblist) :
          /\ joblist[j].submitted
          /\ LET r == Status(joblist[j], <<>>, files)
             IN  Apply(j, r, Call("status_absent", j, FALSE, r.poll))
    /\ UNCHANGED <<bpc, bfake, kloop, procs>>

\* calls on one job until its entry leaves the listing; from then on the
\* entry stays absent and the caller only polls
NextGone ==
    \/ (last.op # "status_absent" /\ JobSubmit)
    \/ (last.op # "status_absent" /\ JobStatus)
    \/ (last.op # "status_absent" /\ JobKill)
    \/ JobStatusAbsent

\* the caller keeps polling: a poll that would change something is
\* eventually made
SpecGone == Init /\ [][NextGone]_vars /\ WF_vars(JobStatusAbsent)

----------------------------------------------------------------------------
(* ClusterBatch *)

\* the state after ClusterBatch(proj_name) returned
InitBatch ==
    /\ joblist = <<>>
    /\ files = [p \in ShFiles |-> NoFile]
    /\ cli = <<>>
    /\ raised = "none"
    /\ last = Call("init", 0, FALSE, "none")
    /\ preCli = <<>>
    /\ bpc = 0
    /\ bfake = FALSE
    /\ kloop = <<>>
    /\ procs = <<>>

\* add_job(cmd, **kwargs) is called without a cleanup keyword: the default
BatchCleanups == {TRUE}

\* ClusterBatch.add_job: construct a ClusterJob and append it
AddJob ==
    /\ bpc = 0 /\ kloop = <<>>
    /\ Len(joblist) < MaxJobs
    /\ \E cmd \in Cmds, cleanup \in BatchCleanups :
          joblist' = Append(joblist, NewJob(cmd, cleanup))
    /\ cli' = <<>>
    /\ raised' = "none"
    /\ preCli' = <<>>
    /\ last' = Call("add_job", Len(joblist) + 1, FALSE, "none")
    /\ UNCHANGED <<files, bpc, bfake, kloop, procs>>

\* ClusterBatch.submit(fake): entering the loop over _joblist
BatchSubmit ==
    /\ bpc = 0 /\ kloop = <<>>
    /\ Len(joblist) > 0
    /\ \E fake \in BOOLEAN :
          /\ bfake' = fake
          /\ last' = Call("batch_submit", 0, fake, "none")
    /\ bpc' = 1
    /\ cli' = <<>>
    /\ raised' = "none"
    /\ preCli' = <<>>
    /\ UNCHANGED <<joblist, files, kloop, procs>>

\* BatchSubmitStep that goes on to the next job after an exception
BatchSubmitStep_ContinuesAfterError ==
    /\ bpc > 0
    /\ SubmitCall(bpc, bfake, "batch")
    /\ bpc' = IF bpc = Len(joblist) THEN 0 ELSE bpc + 1
    /\ UNCHANGED <<bfake, kloop, procs>>

\* ClusterBatch.submit(fake): one turn of the loop, job.submit(fake=fake);
\* an exception leaves the loop
BatchSubmitStep ==
    /\ bpc > 0
    /\ SubmitCall(bpc, bfake, "batch")
    /\ bpc' = IF raised' # "none" \/ bpc = Len(joblist) THEN 0 ELSE bpc + 1
    /\ UNCHANGED <<bfake, kloop, procs>>

\* the jobid argument of ClusterBatch.kill; None: no argument
KillArgs == JobidValues

\* ClusterBatch.kill(jobid): entering the loop over _joblist
BatchKill ==
    /\ bpc = 0 /\ kloop = <<>>
    /\ Len(joblist) > 0
    /\ \E jobid \in KillArgs : kloop' = <<[pc |-> 1, jobid |-> jobid]>>
    /\ last' = BatchCall("batch_kill", 0, FALSE, "none")
    /\ cli' = <<>>
    /\ raised' = "none"
    /\ preCli' = <<>>
    /\ UNCHANGED <<joblist, files, bpc, bfake, procs>>

\* the loop of ClusterBatch.kill goes to its next job, or ends after the
\* last one and on an exception
KillLoopNext ==
    kloop' = IF raised' # "none" \/ kloop[1].pc = Len(joblist) THEN <<>>
             ELSE <<[kloop[1] EXCEPT !.pc = @ + 1]>>

\* ClusterBatch.kill(jobid): one turn of the loop,
\* if jobid is None or int(job._jobid) == int(jobid): job.kill();
\* int(None) raises TypeError
BatchKillStep ==
    /\ kloop # <<>>
    /\ LET i == kloop[1].pc
           jobid == kloop[1].jobid
       IN  IF jobid = None
           THEN KillCall(i, "batch")
           ELSE IF joblist[i].jobid = None
           THEN /\ raised' = "TypeError"
                /\ last' = BatchCall("kill", i, FALSE, "none")
                /\ cli' = <<>>
                /\ preCli' = <<>>
                /\ UNCHANGED <<joblist, files>>
           ELSE IF ToNat(joblist[i].jobid) = ToNat(jobid)
           THEN KillCall(i, "batch")
           ELSE /\ raised' = "none"
                /\ last' = BatchCall("pass", i, FALSE, "none")
                /\ cli' = <<>>
                /\ preCli' = <<>>
                /\ UNCHANGED <<joblist, files>>
    /\ KillLoopNext
    /\ UNCHANGED <<bpc, bfake, procs>>

NextBatchKill ==
    \/ AddJob
    \/ BatchSubmit
    \/ BatchSubmitStep
    \/ BatchKill
    \/ BatchKillStep

SpecBatchKill == InitBatch /\ [][NextBatchKill]_vars

NextBatch ==
    \/ AddJob
    \/ JobSubmit
    \/ BatchSubmit
    \/ BatchSubmitStep

SpecBatch == InitBatch /\ [][NextBatch]_vars

----------------------------------------------------------------------------
(* Two processes of one user, each calling submit() on a job of its own *)

\* both processes share the home directory; process p holds joblist[p].
\* procs[p] is where p is in submit(): its position, the qsub invocation
\* it made (<<>>: none yet) and the exception that ended it
InitConcurrent ==
    /\ \E c1 \in BOOLEAN, c2 \in BOOLEAN :
          joblist = <<NewJob("sleep 5", c1), NewJob("ls", c2)>>
    /\ files = [p \in ShFiles |-> NoFile]
    /\ cli = <<>>
    /\ raised = "none"
    /\ last = Call("init", 0, FALSE, "none")
    /\ preCli = <<>>
    /\ bpc = 0
    /\ bfake = FALSE
    /\ kloop = <<>>
    /\ procs = [p \in 1..2 |->
                   [pc |-> "start", call |-> <<>>, exc |-> "none"]]

\* submit() up to the script file: self._check_status(), the tests of
\* _submitted and fake, then self._write_qsub_job()
ProcWrite(p) ==
    /\ procs[p].pc = "start"
    /\ \E listing \in PollListings[joblist[p].jobid] :
          LET st == CheckStatus(joblist[p], listing)
          IN  /\ joblist' = [joblist EXCEPT ![p] = st.job]
              /\ IF st.exc # "none"
                 THEN /\ procs' = [procs EXCEPT ![p].pc = "done",
                                                 ![p].exc = st.exc]
                      /\ files' = files
                 ELSE IF st.job.submitted
                 THEN /\ procs' = [procs EXCEPT ![p].pc = "done"]
                      /\ files' = files
                 ELSE /\ procs' = [procs EXCEPT ![p].pc = "written"]
                      /\ files' = WriteQsubJob(files, st.job)
    /\ UNCHANGED <<cli, raised, last, preCli, bpc, bfake, kloop>>

\* submit(): subp.check_output(['qsub', expanduser(sh_file)]) with the
\* default sh_file, then the job identifier is read from the output;
\* qsub reads the file that is at the path when it runs
ProcQsub(p) ==
    /\ procs[p].pc = "written"
    /\ \E res \in QsubResults :
          /\ files[DefaultShFile] = NoFile => res.rc # 0
          /\ LET call == <<QsubCall(DefaultShFile, files[DefaultShFile],
                                    res.rc)>>
                 m == FirstDigits(RStrip(res.out))
             IN  IF res.rc # 0
                 THEN /\ procs' = [procs EXCEPT ![p].pc = "done",
                                                 ![p].call = call,
                                                 ![p].exc = "RuntimeError"]
                      /\ joblist' = joblist
                 ELSE IF m = <<>>
                 THEN /\ procs' = [procs EXCEPT ![p].pc = "done",
                                                 ![p].call = call,
                                                 ![p].exc = "AttributeError"]
                      /\ joblist' = joblist
                 ELSE IF joblist[p].cleanup_qsub_job
                 THEN /\ procs' = [procs EXCEPT ![p].pc = "accepted",
                                                 ![p].call = call]
                      /\ joblist' = [joblist EXCEPT ![p].jobid = m]
                 ELSE /\ procs' = [procs EXCEPT ![p].pc = "done",
                                                 ![p].call = call]
                      /\ joblist' = [joblist EXCEPT ![p].jobid = m,
                                                    ![p].submitted = TRUE]
    /\ UNCHANGED <<files, cli, raised, last, preCli, bpc, bfake, kloop>>

\* submit(): self._delete_qsub_job(), then self._submitted = True;
\* os.unlink raises OSError when the file is not there
ProcCleanup(p) ==
    /\ procs[p].pc = "accepted"
    /\ IF files[DefaultShFile] = NoFile
       THEN /\ procs' = [procs EXCEPT ![p].pc = "done", ![p].exc = "OSError"]
            /\ UNCHANGED <<joblist, files>>
       ELSE /\ procs' = [procs EXCEPT ![p].pc = "done"]
            /\ files' = DeleteQsubJob(files)
            /\ joblist' = [joblist EXCEPT ![p].submitted = TRUE]
    /\ UNCHANGED <<cli, raised, last, preCli, bpc, bfake, kloop>>

NextConcurrent ==
    \/ \E p \in DOMAIN procs : ProcWrite(p)
    \/ \E p \in DOMAIN procs : ProcQsub(p)
    \/ \E p \in DOMAIN procs : ProcCleanup(p)

SpecConcurrent == InitConcurrent /\ [][NextConcurrent]_vars

----------------------------------------------------------------------------
(* Construction of jobs, alone and in a batch *)

MaxThreads == 2   \* the n_threads argument

Proj == "MEG_EEG-Training"

CmdArgs == {Absent, Given(""), Given("sleep 5")}
ProjArgs == {Absent, Given(Proj)}
QueueArgs == Queues \cup {"nonexistent"}
TotalMemories ==
    {Absent, Given(<<"1", "6", "G">>), Given(<<"1", "6", "g">>),
     Given(<<"1", "6", "T">>), Given(<<"1", "6", "k">>),
     Given(<<"1", "M">>), Given(<<"1", "6", "X">>), Given(<<"1", "6">>)}
WorkingDirs ==
    {Absent, Given("cwd"), Given("/tmp"), Given("/"),
     Given("/non/existent/dir")}
LogDirs == {Absent, Given("/non/existent/dir")}
ExtraKeywords == {{}, {"h_vmem"}}

Requests ==
    {Request(c, p, q, t, n, w, l, x) :
        c \in CmdArgs, p \in ProjArgs, q \in QueueArgs, t \in TotalMemories,
        n \in 1..MaxThreads, w \in WorkingDirs, l \in LogDirs,
        x \in ExtraKeywords}

\* the record of a constructing call: its arguments, its environment and,
\* for ClusterJob(...), the object it returned
Construction(op, req, env, job, subjects) ==
    [op |-> op, j |-> 0, fake |-> FALSE, poll |-> "none", via |-> "job",
     req |-> req, env |-> env, job |-> job, subjects |-> subjects]

\* either a ClusterJob(...) is about to be called on its own, with these
\* arguments in this environment, or a ClusterBatch has been constructed
InitConstruct ==
    /\ joblist = <<>>
    /\ files = [p \in ShFiles |-> NoFile]
    /\ cli = <<>>
    /\ raised = "none"
    /\ \/ \E req \in Requests, env \in Envs :
             last = Construction("request", req, env, Absent, <<>>)
       \/ last = Call("init", 0, FALSE, "none")
    /\ preCli = <<>>
    /\ bpc = 0
    /\ bfake = FALSE
    /\ kloop = <<>>
    /\ procs = <<>>

\* ClusterJob(...) called on its own with the arguments drawn
JobInit ==
    /\ last.op = "request"
    /\ LET r == ClusterJobInit(last.req, last.env)
       IN  /\ raised' = r.exc
           /\ last' = Construction("ClusterJob", last.req, last.env, r.job,
                                   <<>>)
    /\ cli' = <<>>
    /\ preCli' = <<>>
    /\ UNCHANGED <<joblist, files, bpc, bfake, kloop, procs>>

\* the keyword arguments add_job is called with; the project is the batch's
BatchRequests ==
    {r \in Requests :
        /\ r.proj_name = Given(Proj) /\ r.extra = {}
        /\ r.cmd # Given("") /\ r.n_threads = 1
        /\ r.queue \in {"short.q", "nonexistent"}
        /\ r.total_memory \in {Absent, Given(<<"1", "6", "G">>)}
        /\ r.working_dir \in {Given("/tmp"), Given("/non/existent/dir")}
        /\ r.log_dir = Absent}

\* a batch exists: its constructor could log in and write where it is
BatchEnvs == {e \in Envs : e.cwd_writable /\ ~e.cwd_entry}

\* the calls of a lone construction; it does not touch a batch, and the
\* batch is followed from its own initial state
LoneOps == {"request", "ClusterJob"}

\* ClusterBatch.add_job(cmd, **kwargs):
\* self._joblist += [ClusterJob(cmd, self.proj_name, **kwargs)]
BatchAddJob ==
    /\ bpc = 0 /\ kloop = <<>>
    /\ last.op \notin LoneOps
    /\ Len(joblist) < MaxJobs
    /\ \E req \in BatchRequests, env \in BatchEnvs :
          LET r == ClusterJobInit(req, env)
          IN  /\ joblist' = joblist \o r.job
              /\ raised' = r.exc
              /\ last' = Construction("add_job", req, env, r.job, <<>>)
    /\ cli' = <<>>
    /\ preCli' = <<>>
    /\ UNCHANGED <<files, bpc, bfake, kloop, procs>>

\* the job options of Freesurfer.recon_all: its defaults, or with the queue
\* replaced by the caller's job_options
ReconRequests ==
    {Request(Given("recon-all"), Given(Proj), q, Absent, 1, Given("/tmp"),
             Given("/tmp"), {}) : q \in {"long.q", "nonexistent"}}

\* the loop of Freesurfer.recon_all over its subjects (TRUE: the subject is
\* in valid_subjects): _recon_all adds a job or raises, and on any
\* exception the job list is emptied before the exception goes on
RECURSIVE ReconAllLoop(_, _, _, _)
ReconAllLoop(list, subjects, opts, env) ==
    IF Len(subjects) = 0 THEN [exc |-> "none", joblist |-> list]
    ELSE IF ~Head(subjects)
    THEN [exc |-> "RuntimeError", joblist |-> <<>>]
    ELSE LET r == ClusterJobInit(opts, env)
         IN  IF r.exc # "none" THEN [exc |-> r.exc, joblist |-> <<>>]
             ELSE ReconAllLoop(list \o r.job, Tail(subjects), opts, env)

\* Freesurfer.recon_all(subject, job_options); create_bem_surfaces and the
\* two methods of SimNIBS have the same loop
ReconAll ==
    /\ bpc = 0 /\ kloop = <<>>
    /\ last.op \notin LoneOps
    /\ \E subjects \in SeqsUpTo(BOOLEAN, MaxJobs - Len(joblist)),
          opts \in ReconRequests, env \in BatchEnvs :
          /\ Len(subjects) > 0
          /\ LET r == ReconAllLoop(joblist, subjects, opts, env)
             IN  /\ joblist' = r.joblist
                 /\ raised' = r.exc
                 /\ last' = Construction("recon_all", opts, env, <<>>,
                                         subjects)
    /\ cli' = <<>>
    /\ preCli' = <<>>
    /\ UNCHANGED <<files, bpc, bfake, kloop, procs>>

NextConstruct ==
    \/ JobInit
    \/ BatchAddJob
    \/ ReconAll

SpecConstruct == InitConstruct /\ [][NextConstruct]_vars

----------------------------------------------------------------------------
(* The rendered submission script *)

MaxCmds == 3      \* commands in the list given as cmd

CmdNames == {"sleep 5", "ls", "date", "hostname"}

\* '\n'.join(value)
RECURSIVE Join(_, _)
Join(items, sep) ==
    IF Len(items) = 0 THEN <<>>
    ELSE IF Len(items) = 1 THEN <<items[1]>>
    ELSE <<items[1], sep>> \o Join(Tail(items), sep)

\* ClusterJob._initialise_cmd for a list of strings: self._cmd
InitialiseCmd(value) == Join(value, NL)

\* a line of the script as the shell takes it
Line(kind, text) == [kind |-> kind, text |-> text]

\* a line of the script that QSUB_SCHEMA makes of exec_cmd: empty, an echo
\* of what follows, or a command (the shell drops the comment after it)
ClassifyLine(tokens) ==
    IF Len(tokens) = 0 THEN Line("blank", "")
    ELSE IF Head(tokens) = "echo -e "
    THEN Line("echo", IF Len(tokens) > 1 THEN tokens[2] ELSE "")
    ELSE IF Head(tokens) = "  # remember to escape quotes on command-liners!"
    THEN Line("comment", Head(tokens))
    ELSE Line("command", Head(tokens))

\* the lines a text with exec_cmd in it is read as: split at every newline
ExecLines(text) ==
    LET parts == Split(text, NL)
    IN  [k \in 1..Len(parts) |-> ClassifyLine(parts[k])]

\* a directive line filled with a flag that may be empty
FlagLine(flag) == IF flag = <<>> THEN Line("blank", "") ELSE Line("comment", flag)

\* QSUB_SCHEMA.format(...): the script, line by line
RenderScript(f) ==
    << Line("blank", ""),
       Line("comment", "#$ -S /bin/bash"),
       Line("comment", "# Pass on all environment variables"),
       Line("comment", "#$ -V"),
       Line("comment", "# Operate in current working directory"),
       FlagLine(f.cwd_flag),
       Line("comment", <<"#$ -N", f.job_name>>),
       Line("comment", <<"#$ -o", f.log_name_prefix, "_$JOB_ID.qsub">>),
       Line("comment", "# Merge stdout and stderr"),
       Line("comment", "#$ -j y"),
       Line("comment", <<"#$ -q", f.queue>>),
       FlagLine(f.opt_threaded_flag),
       Line("blank", ""),
       Line("blank", ""),
       Line("blank", ""),
       Line("comment",
            "# Make sure process uses max requested number of threads!"),
       Line("export", "OMP_NUM_THREADS=$NSLOTS"),
       Line("blank", ""),
       Line("echo", "Executing following command on $NSLOTS threads:") >>
    \o ExecLines(<<"echo -e ">> \o f.exec_cmd)
    \o <<Line("blank", "")>>
    \o ExecLines(f.exec_cmd
                 \o <<"  # remember to escape quotes on command-liners!">>)
    \o << Line("blank", ""),
          Line("echo", "Done executing") >>

\* the commands the shell runs when it executes the script, in order
RECURSIVE ShellCommands(_)
ShellCommands(script) ==
    IF Len(script) = 0 THEN <<>>
    ELSE (IF Head(script).kind = "command" THEN <<Head(script).text>>
          ELSE <<>>)
         \o ShellCommands(Tail(script))

\* ClusterJob(cmd, proj) is about to be called with a list as cmd; the
\* call is recorded with this value and, once it has returned, with the
\* lines of its script
InitScript ==
    /\ joblist = <<>>
    /\ files = [p \in ShFiles |-> NoFile]
    /\ cli = <<>>
    /\ raised = "none"
    /\ \E value \in SeqsUpTo(CmdNames, MaxCmds) : last = [value |-> value, script |-> <<>>]
                 @@ Call("cmd_list", 0, FALSE, "none")
    /\ preCli = <<>>
    /\ bpc = 0
    /\ bfake = FALSE
    /\ kloop = <<>>
    /\ procs = <<>>

\* ClusterJob(cmd, proj) with the other arguments at their defaults, in a
\* writable current directory: `if not cmd` refuses the empty list, then
\* _initialise_cmd and _create_qsub_script
JobRender ==
    /\ last.op = "cmd_list"
    /\ IF Len(last.value) = 0
       THEN /\ raised' = "ValueError"
            /\ last' = [last EXCEPT !.op = "ClusterJob"]
       ELSE /\ raised' = "none"
            /\ last' = [last EXCEPT
                          !.op = "ClusterJob",
                          !.script = RenderScript(
                             CreateQsubScript(InitialiseCmd(last.value),
                                              DefaultJobName,
                                              <<"#$", "-cwd">>, <<>>,
                                              <<DefaultJobName>>,
                                              "short.q"))]
    /\ UNCHANGED <<joblist, files, cli, preCli, bpc, bfake, kloop, procs>>

SpecScript == InitScript /\ [][JobRender]_vars

----------------------------------------------------------------------------
(* base.check_destination_writable and its callers, on a file system *)

\* os.path.join(test_dir, 'foo') for the directories that exist
ProbeOf == ("/tmp" :> "/tmp/foo") @@ ("/" :> "/foo")

\* the paths the checks are given, and the directory each one is in
BasePaths == {"/tmp/foo", "/foo", "/tmp/out.fif"}
DirOf == ("/tmp/foo" :> "/tmp") @@ ("/foo" :> "/") @@ ("/tmp/out.fif" :> "/tmp")

\* the result of a check: its return value, the exception it raised and
\* the file system it leaves
Checked(ret, exc, fs) == [ret |-> ret, exc |-> exc, fs |-> fs]

\* base.check_destination_writable(dest): open(dest, 'w') creates the file
\* or truncates the one that is there, os.remove(dest) then removes it
CheckDestinationWritableOn(fs, dest) ==
    LET canOpen == IF fs[dest] = NoFile THEN DirOf[dest] \in WritableDirs
                   ELSE fs[dest][1].writable
        opened == [fs EXCEPT ![dest] =
                      <<[content |-> "",
                         writable |-> IF fs[dest] = NoFile THEN TRUE
                                      ELSE fs[dest][1].writable]>>]
    IN  IF ~canOpen THEN Checked(FALSE, "none", fs)
        ELSE IF DirOf[dest] \notin WritableDirs
        THEN Checked(FALSE, "OSError", opened)
        ELSE Checked(TRUE, "none", [fs EXCEPT ![dest] = NoFile])

\* base.check_source_readable(source)
CheckSourceReadable(fs, source) == fs[source] # NoFile

\* base.enforce_path_exists(test_dir)
EnforcePathExistsOn(fs, test_dir) ==
    IF test_dir \notin ExistingDirs THEN Checked(FALSE, "IOError", fs)
    ELSE LET c == CheckDestinationWritableOn(fs, ProbeOf[test_dir])
         IN  IF c.exc # "none" THEN c
             ELSE IF ~c.ret THEN Checked(FALSE, "IOError", c.fs)
             ELSE Checked(TRUE, "none", c.fs)

\* Maxfilter.check_input_output_mapping for one input and output
CheckInputOutputMapping(fs, input, output) ==
    IF ~CheckSourceReadable(fs, input) THEN Checked(FALSE, "IOError", fs)
    ELSE LET c == CheckDestinationWritableOn(fs, output)
         IN  IF c.exc # "none" THEN c
             ELSE IF ~c.ret THEN Checked(FALSE, "IOError", c.fs)
             ELSE Checked(TRUE, "none", c.fs)

\* a file is not there, or it holds data and the user may write it or not
InitBase ==
    /\ joblist = <<>>
    /\ files \in [BasePaths ->
                     {NoFile} \cup {<<[content |-> "data", writable |-> w]>> :
                                       w \in BOOLEAN}]
    /\ cli = <<>>
    /\ raised = "none"
    /\ last = Call("init", 0, FALSE, "none")
    /\ preCli = <<>>
    /\ bpc = 0
    /\ bfake = FALSE
    /\ kloop = <<>>
    /\ procs = <<>>

ApplyCheck(c, call) ==
    /\ files' = c.fs
    /\ raised' = c.exc
    /\ last' = call
    /\ UNCHANGED <<joblist, cli, preCli, bpc, bfake, kloop, procs>>

\* check_destination_writable(dest)
CheckDestination ==
    \E dest \in BasePaths :
       ApplyCheck(CheckDestinationWritableOn(files, dest),
                  Call("check_destination_writable", 0, FALSE, "none"))

\* enforce_path_exists(working_dir), as ClusterJob.__init__ calls it
EnforcePath ==
    \E dir \in ExistingDirs \cup {"/non/existent/dir"} :
       ApplyCheck(EnforcePathExistsOn(files, dir),
                  Call("enforce_path_exists", 0, FALSE, "none"))

\* Maxfilter.check_input_output_mapping()
CheckMapping ==
    \E input \in BasePaths, output \in BasePaths :
       ApplyCheck(CheckInputOutputMapping(files, input, output),
                  Call("check_input_output_mapping", 0, FALSE, "none"))

NextBase ==
    \/ CheckDestination
    \/ EnforcePath
    \/ CheckMapping

SpecBase == InitBase /\ [][NextBase]_vars

----------------------------------------------------------------------------
(* Cluster.get_load_dict *)

MaxQueues == 3    \* queue lines in the listing of `qstat -g c`

\* the columns of a queue line of `qstat -g c`, by the name of the queue:
\* CLUSTER QUEUE, CQLOAD, USED, RES, AVAIL, TOTAL, aoACDS, cdsuE
LoadColumns ==
    ("all.q" :> <<"all.q", "0.01", "3", "1", "12", "16", "0", "0">>)
    @@ ("long.q" :> <<"long.q", "0.50", "8", "0", "24", "32", "0", "0">>)
    @@ ("short.q" :> <<"short.q", "0.25", "2", "0", "6", "8", "0", "0">>)
    @@ ("highmem.q" :> <<"highmem.q", "1.00", "4", "0", "0", "4", "0", "0">>)
    @@ ("CLUSTER QUEUE" :> <<"CLUSTER", "QUEUE", "CQLOAD", "USED", "RES",
                             "AVAIL", "TOTAL", "aoACDS", "cdsuE">>)
    @@ ("----" :> <<"----">>)

\* what a command prints: every line ended by a newline
RECURSIVE EndLines(_)
EndLines(lines) ==
    IF Len(lines) = 0 THEN <<>>
    ELSE <<Head(lines), NL>> \o EndLines(Tail(lines))

\* str.split() of a line of the listing
SplitLine(line) == IF Len(line) = 0 THEN <<>> ELSE LoadColumns[line[1]]

\* Cluster.get_load_dict on the output of `qstat -g c`: the lines that
\* _query returns (output.rstrip().split('\n')), sliced [2:-1], each
\* split and made into a record of qq[0], qq[1], qq[2], qq[4] and qq[5]
GetLoadDict(output) ==
    LET lines == Split(RStrip(output), NL)
        loads == SubSeq(lines, 3, Len(lines) - 1)
    IN  IF \E k \in 1..Len(loads) : Len(SplitLine(loads[k])) < 6
        THEN [exc |-> "IndexError", q_list |-> <<>>]
        ELSE [exc |-> "none",
              q_list |-> [k \in 1..Len(loads) |->
                             LET qq == SplitLine(loads[k])
                             IN  [name |-> qq[1], load |-> qq[2],
                                  used |-> qq[3], avail |-> qq[5],
                                  total |-> qq[6]]]]

\* the grid engine has these queues when get_load_dict is called; the
\* call is recorded with them and, once it has returned, with its list
InitLoad ==
    /\ joblist = <<>>
    /\ files = [p \in ShFiles |-> NoFile]
    /\ cli = <<>>
    /\ raised = "none"
    /\ \E queues \in SeqsUpTo({"all.q", "long.q", "short.q", "highmem.q"},
                                MaxQueues) :
          last = [queues |-> queues, q_list |-> <<>>]
                 @@ Call("listing", 0, FALSE, "none")
    /\ preCli = <<>>
    /\ bpc = 0
    /\ bfake = FALSE
    /\ kloop = <<>>
    /\ procs = <<>>

\* Cluster().get_load_dict(): `qstat -g c` prints its two header lines,
\* then a line for each queue
LoadDict ==
    /\ last.op = "listing"
    /\ LET output == EndLines(<<"CLUSTER QUEUE", "----">> \o last.queues)
           r == GetLoadDict(output)
       IN  /\ raised' = r.exc
           /\ last' = [last EXCEPT !.op = "get_load_dict",
                                   !.q_list = r.q_list]
    /\ UNCHANGED <<joblist, files, cli, preCli, bpc, bfake, kloop, procs>>

SpecLoad == InitLoad /\ [][LoadDict]_vars

TypeOK ==
    /\ Len(joblist) <= MaxJobs
    /\ bpc \in 0..Len(joblist)
    /\ raised \in {"none", "ValueError", "RuntimeError", "AttributeError"}
    /\ Len(cli) <= 1

----------------------------------------------------------------------------
(* What a handle reports *)

Running(job) == job.running
Waiting(job) == job.waiting
Completed(job) == job.completed
Killed(job) == job.status_msg = MsgKilled
SubmissionFailed(job) == job.status_msg = MsgSubmissionFailed
NotSubmitted(job) == ~job.submitted

\* the state of a handle: its four flags and its message
Flags(job) ==
    <<job.submitted, job.running, job.waiting, job.completed, job.status_msg>>

Jobs == 1..Len(joblist)
JobCalls == {"submit", "status", "kill"}

\* ClusterBatch.commands: [job.cmd for job in self._joblist]
Commands == [j \in Jobs |-> joblist[j].cmd]

\* the step is the call op on job j
IsCall(op, j) == last'.op = op /\ last'.j = j

----------------------------------------------------------------------------
(* Claims *)

\* C1: in every reachable state at most one of Waiting, Running, Completed,
\* Killed and SubmissionFailed holds for a handle.
C1_AtMostOneState ==
    \A j \in Jobs :
       Cardinality({k \in 1..5 :
                       <<Waiting(joblist[j]), Running(joblist[j]),
                         Completed(joblist[j]), Killed(joblist[j]),
                         SubmissionFailed(joblist[j])>>[k]}) <= 1

\* a kill() went through: the handle reports Killed
C1_Witness ==
    \E j \in Jobs :
       /\ last.op = "kill" /\ last.j = j
       /\ Killed(joblist[j])
       /\ Len(cli) = 1 /\ cli[1].rc = 0

\* C2: submit() on a handle that is submitted and not terminal does not
\* invoke qsub, writes no script and leaves the job identifier as it was.
C2_ResubmitIsNoOp ==
    [][\A j \in Jobs :
          (IsCall("submit", j) /\ joblist[j].submitted
             /\ ~Completed(joblist[j]) /\ ~Killed(joblist[j]))
          => (cli' = <<>> /\ files' = files
              /\ joblist'[j].jobid = joblist[j].jobid
              /\ joblist'[j].submitted)]_vars

\* submit() returned on a handle that was already submitted and is running
C2_Witness ==
    \E j \in Jobs :
       /\ last.op = "submit" /\ last.j = j /\ ~last.fake
       /\ last.poll = "line"
       /\ raised = "none" /\ cli = <<>>
       /\ joblist[j].submitted /\ Running(joblist[j])

\* C3: once a handle reports Killed it reports Killed after every later
\* call, and it becomes Killed only by a kill() that reached qdel while the
\* handle was Waiting or Running.
C3_KilledIsTerminal ==
    [][\A j \in Jobs :
          /\ Killed(joblist[j]) => Flags(joblist'[j]) = Flags(joblist[j])
          /\ (~Killed(joblist[j]) /\ Killed(joblist'[j]))
             => (/\ IsCall("kill", j)
                 /\ Len(preCli') = 1
                 /\ (Waiting(preCli'[1]) \/ Running(preCli'[1])))]_vars

\* C4: a status poll that finds no line for a submitted handle never seen
\* running leaves the handle reporting SubmissionFailed.
C4_NoLineNeverRunningFails ==
    \A j \in Jobs :
       (last.op = "status" /\ last.j = j /\ last.poll = "empty"
          /\ joblist[j].submitted /\ ~joblist[j].seenRunning)
       => SubmissionFailed(joblist[j])

C6_CompletedIsTerminal ==
    [][\A j \in Jobs :
          Completed(joblist[j])
          => (/\ Flags(joblist'[j]) = Flags(joblist[j])
              /\ joblist'[j].jobid = joblist[j].jobid
              /\ (last'.j = j /\ last'.op \in JobCalls
                    => cli' = <<>> /\ raised' = "none"))]_vars

\* a kill() was called on a Completed handle
C6_Witness ==
    \E j \in Jobs :
       /\ last.op = "kill" /\ last.j = j /\ last.poll = "skipped"
       /\ Completed(joblist[j])

\* C7: kill() on a NotSubmitted or Completed handle does not invoke qdel
\* and does not change the handle's state.
C7_KillIsNoOpUnlessQueued ==
    [][\A j \in Jobs :
          (IsCall("kill", j)
             /\ (NotSubmitted(joblist[j]) \/ Completed(joblist[j])))
          => (cli' = <<>> /\ Flags(joblist'[j]) = Flags(joblist[j]))]_vars

\* C8: submit(fake=True) on a NotSubmitted handle, called directly or by
\* ClusterBatch.submit(fake=True) on each member, does not invoke qsub,
\* writes no file and leaves every NotSubmitted handle NotSubmitted and
\* without a job identifier.
C8_FakeSubmitDoesNothing ==
    [][\A j \in Jobs :
          (IsCall("submit", j) /\ last'.fake /\ NotSubmitted(joblist[j]))
          => (/\ cli' = <<>>
              /\ files' = files
              /\ (bpc > 0 => bfake /\ j = bpc)
              /\ \A i \in Jobs :
                    NotSubmitted(joblist[i])
                    => (NotSubmitted(joblist'[i])
                        /\ joblist'[i].jobid = None))]_vars

\* ClusterBatch.submit(fake=True) has passed its first member and is at the
\* second
C8_Witness ==
    /\ bpc = 2 /\ bfake
    /\ last.op = "submit" /\ last.j = 1 /\ last.fake
    /\ raised = "none"
    /\ NotSubmitted(joblist[1]) /\ NotSubmitted(joblist[2])

\* C9: when qsub or qdel exits non-zero the call raises at once, having
\* made that one invocation only, and the handle is as it was when the
\* command line was invoked: not Submitted after qsub, not Killed after qdel.
C9_CliFailureRaises ==
    \A k \in 1..Len(cli) :
       cli[k].rc # 0
       => (/\ raised = "RuntimeError"
           /\ Len(cli) = 1
           /\ Len(preCli) = 1
           /\ joblist[last.j] = preCli[1]
           /\ (cli[k].tool = "qsub" => NotSubmitted(joblist[last.j]))
           /\ (cli[k].tool = "qdel" => ~Killed(joblist[last.j])))

\* qdel exited non-zero on a Running handle
C9_Witness ==
    /\ last.op = "kill"
    /\ Len(cli) = 1 /\ cli[1].tool = "qdel" /\ cli[1].rc # 0
    /\ Running(joblist[last.j])

\* C10: the script file at the temporary path is written only by a
\* submit() that is not fake, and with cleanup enabled it does not exist
\* once submit() has returned or raised.
C10_ScriptOnlyDuringSubmit ==
    [][/\ files'[DefaultShFile] # files[DefaultShFile]
          => (last'.op = "submit" /\ ~last'.fake)
       /\ \A j \in Jobs :
             (IsCall("submit", j) /\ joblist[j].cleanup_qsub_job)
             => files'[DefaultShFile] = NoFile]_vars

\* C11: ClusterBatch.submit() submits its members one at a time in
\* insertion order and does not roll back: each turn of the loop calls
\* submit on the next member only and leaves every other member as it was;
\* when the call on member k raises, the loop ends there, every member
\* before k is still submitted and no member after k has been touched.
C11_BatchSubmitInOrderNoRollback ==
    [][bpc > 0
       => (/\ IsCall("submit", bpc) /\ last'.via = "batch"
           /\ last'.fake = bfake
           /\ Len(joblist') = Len(joblist)
           /\ \A i \in Jobs \ {bpc} : joblist'[i] = joblist[i]
           /\ (~bfake => \A i \in 1..(bpc - 1) : joblist'[i].submitted)
           /\ (raised' # "none"
                 => /\ bpc' = 0
                    /\ joblist'[bpc].submitted = joblist[bpc].submitted)
           /\ (raised' = "none" /\ bpc < Len(joblist) => bpc' = bpc + 1)
           /\ (raised' = "none" /\ bpc = Len(joblist) => bpc' = 0))]_vars

\* ClusterBatch.submit() submitted its first member and raised on its second
C11_Witness ==
    /\ Len(joblist) = 2 /\ bpc = 0
    /\ last.op = "submit" /\ last.j = 2 /\ last.via = "batch" /\ ~last.fake
    /\ raised = "RuntimeError"
    /\ joblist[1].submitted /\ ~joblist[2].submitted

\* C12: a batch's job list only grows by appending: after any job-adding
\* operation (add_job, or recon_all and the methods built like it),
\* including one that fails while constructing a job, every job that was in
\* the list before the operation is still in the list at the same position.
C12_JobListOnlyAppends ==
    [][last'.op \in {"add_job", "recon_all"}
       => (/\ Len(joblist') >= Len(joblist)
           /\ \A i \in 1..Len(joblist) : joblist'[i] = joblist[i])]_vars

\* C13: ClusterBatch.kill() with no identifier applies kill to every
\* member; kill(jobid) applies kill to the member whose engine identifier
\* equals jobid and leaves every other member as it was, in every state of
\* the batch, members not yet submitted included: a turn of the loop at a
\* member that does not match changes nothing, raises nothing and goes on.
C13_BatchKillSelectsById ==
    [][kloop # <<>>
       => LET i == kloop[1].pc
              jobid == kloop[1].jobid
              match == /\ joblist[i].jobid # None
                       /\ ToNat(joblist[i].jobid) = ToNat(jobid)
          IN  /\ \A k \in Jobs \ {i} : joblist'[k] = joblist[k]
              /\ (jobid = None => IsCall("kill", i))
              /\ (jobid # None /\ match => IsCall("kill", i))
              /\ (jobid # None /\ ~match
                    => /\ joblist' = joblist
                       /\ cli' = <<>>
                       /\ raised' = "none"
                       /\ (i < Len(joblist) => kloop' # <<>>))]_vars

\* C14: for every valid request with total_memory set and n_threads left at
\* 1, the constructed job's thread count is ceil(ratio * total_memory /
\* per_process_limit), ratio being the quotient of the unit factors (k, m,
\* g, t as powers of 1000, in either case) or 1 for equal units: it is the
\* least n for which n times the limit, in bytes, is not below the total;
\* '16G' against '8G' gives 2 and '16T' against '8G' gives 2000.
C14_ThreadCountIsCeiling ==
    (last.op = "ClusterJob" /\ raised = "none"
       /\ last.req.total_memory # Absent /\ last.req.n_threads = 1)
    => LET tot == ReSplitDigits(last.req.total_memory[1])
           lim == ReSplitDigits(MemLimits[last.req.queue])
           et == IF tot[3] = lim[3] THEN 0 ELSE Units[Lower(tot[3])]
           el == IF tot[3] = lim[3] THEN 0 ELSE Units[Lower(lim[3])]
           low == IF et < el THEN et ELSE el
           total == ToNat(tot[2]) * Pow(Thousand, et - low)
           limit == ToNat(lim[2]) * Pow(Thousand, el - low)
           n == last.job[1].n_threads
       IN  /\ n * limit >= total
           /\ (n > 0 => (n - 1) * limit < total)
           /\ (tot = <<<<>>, <<"1", "6">>, <<"G">>>>
                 /\ lim = <<<<>>, <<"8">>, <<"G">>>> => n = 2)
           /\ (tot = <<<<>>, <<"1", "6">>, <<"T">>>>
                 /\ lim = <<<<>>, <<"8">>, <<"G">>>> => n = 2000)

\* total_memory='16T' on a queue whose limit is '8G' gave 2000 threads
C14_Witness ==
    /\ last.op = "ClusterJob" /\ raised = "none"
    /\ last.req.total_memory = Given(<<"1", "6", "T">>)
    /\ last.req.n_threads = 1
    /\ MemLimits[last.req.queue] = <<"8", "G">>
    /\ last.job[1].n_threads = 2000

\* C15 as stated: no successfully constructed ClusterJob has total_memory
\* set and a thread count greater than 1.
C15_NoTotalMemoryWithThreads ==
    (last.op = "ClusterJob" /\ raised = "none")
    => ~(last.job[1].total_memory # Absent /\ last.job[1].n_threads > 1)

\* C15, amended: no successfully constructed ClusterJob was requested with
\* total_memory set and an n_threads argument greater than 1; and every
\* request with both fails.
C15_NoTotalMemoryWithRequestedThreads ==
    last.op = "ClusterJob"
    => /\ raised = "none"
          => ~(last.job[1].total_memory # Absent /\ last.req.n_threads > 1)
       /\ (last.req.total_memory # Absent /\ last.req.n_threads > 1)
          => (raised # "none" /\ last.job = Absent)

\* a job requested with total_memory and one thread was constructed with
\* two threads
C15_Witness ==
    /\ last.op = "ClusterJob" /\ raised = "none"
    /\ last.job[1].total_memory = Given(<<"1", "6", "G">>)
    /\ last.req.n_threads = 1
    /\ last.job[1].n_threads = 2

\* the request names a command, a project and a queue of the cluster, asks
\* for nothing else, and the database accepts the login
ValidRequest(req, env) ==
    /\ req.cmd \notin {Absent, Given("")}
    /\ req.proj_name \notin {Absent, Given("")}
    /\ req.queue \in Queues
    /\ env.login_ok

\* C16: ClusterJob(..., working_dir='cwd') with a valid command, project
\* and queue and a writable current directory succeeds and its script has
\* the line '#$ -cwd'; with an existing writable directory d it succeeds
\* and its script has the line '#$ -wd d'.
C16_WorkingDirDirective ==
    (last.op = "ClusterJob" /\ ValidRequest(last.req, last.env)
       /\ last.req.extra = {} /\ last.req.total_memory = Absent
       /\ last.req.n_threads = 1 /\ last.req.log_dir = Absent)
    => /\ (last.req.working_dir = Given("cwd") /\ last.env.cwd_writable)
          => (/\ raised = "none"
              /\ last.job # Absent
              /\ last.job[1].qsub_script.cwd_flag = <<"#$", "-cwd">>)
       /\ \A d \in ExistingDirs \cap WritableDirs :
             last.req.working_dir = Given(d)
             => (/\ raised = "none"
                 /\ last.job # Absent
                 /\ last.job[1].qsub_script.cwd_flag = <<"#$", "-wd", d>>)

\* what C17 says of one constructing call
ConfigErrorsRaise ==
    LET req == last.req
        env == last.env
        noCmd == req.cmd \in {Absent, Given("")}
        noProj == req.proj_name \in {Absent, Given("")}
        badQueue == req.queue \notin Queues
        memThreads == req.total_memory # Absent /\ req.n_threads > 1
        badDir == /\ req.working_dir # Absent
                  /\ req.working_dir # Given("cwd")
                  /\ \/ req.working_dir[1] \notin ExistingDirs
                     \/ req.working_dir[1] \notin WritableDirs
    IN  (last.op \in {"ClusterJob", "add_job"} /\ req.extra = {})
        => /\ (noCmd \/ noProj \/ badQueue \/ memThreads \/ badDir)
              => (raised # "none" /\ last.job = Absent)
           /\ (noCmd \/ noProj) => raised = "ValueError"
           /\ (ValidRequest(req, env) /\ memThreads) => raised = "ValueError"
           /\ (~noCmd /\ ~noProj /\ env.login_ok /\ badQueue)
              => raised = "ValueError"
           /\ (ValidRequest(req, env) /\ badDir)
              => /\ raised \in {"ValueError", "IOError"}
                 /\ (req.total_memory = Absent /\ req.n_threads = 1)
                    => raised = "IOError"

C18_HighmemNeedsMemory ==
    (last.op = "ClusterJob" /\ ValidRequest(last.req, last.env)
       /\ last.req.queue = "highmem.q" /\ last.req.total_memory = Absent)
    => raised = "RuntimeError"

\* C19: the command of a constructed ClusterJob is immutable: every
\* attempt to assign cmd raises, and job.cmd, like the entry of
\* ClusterBatch.commands for the job, is the same after every submit,
\* status, kill and attempted assignment.
C19_CmdImmutable ==
    [][/\ \A j \in Jobs :
             /\ IsCall("set_cmd", j) => raised' # "none"
             /\ joblist'[j].cmd = joblist[j].cmd
       /\ Commands' = Commands]_vars

\* an assignment to cmd was tried on a submitted job and raised
C19_Witness ==
    /\ last.op = "set_cmd" /\ raised = "ValueError"
    /\ joblist[last.j].submitted
    /\ Commands = <<"sleep 5">>

\* C20: a status poll that finds a matching line makes the handle Running
\* when the run-state code of the line is 'r', Waiting when it is 'qw', and
\* for any other code reports the anomalous state with that code verbatim,
\* whatever state other than Completed the handle was in.
C20_PollMapsRunCode ==
    \A j \in Jobs :
       ~Completed(joblist[j])
       => \A listing \in PollListings[joblist[j].jobid] :
             LET output == Query(joblist[j].jobid, listing)
                 runcode == Split(output, SP)[1]
                 st == CheckStatus(joblist[j], listing)
             IN  Len(output) > 0
                 => /\ st.exc = "none"
                    /\ runcode = <<"r">>
                       => (Running(st.job) /\ ~Waiting(st.job))
                    /\ runcode = <<"q", "w">>
                       => (Waiting(st.job) /\ ~Running(st.job)
                           /\ st.job.status_msg = MsgWaiting)
                    /\ runcode \notin {<<"r">>, <<"q", "w">>}
                       => st.job.status_msg = MsgOdd(runcode)


\* C21: a status poll never raises because of the shape of a non-empty
\* status line: no submit, status or kill call ends in the exception of the
\* line parser, and for every line that is not of the form
\* 'state queue@host' (two fields, and for a running job a second field
\* with one '@') the handle reports the anomalous state.
C21_MalformedLineIsAnomalous ==
    /\ last.op \in JobCalls => last.poll # "raise"
    /\ \A j \in Jobs :
          ~Completed(joblist[j])
          => \A listing \in PollListings[joblist[j].jobid] :
                LET output == Query(joblist[j].jobid, listing)
                    st == CheckStatus(joblist[j], listing)
                    parts == Split(output, SP)
                    wellFormed ==
                       /\ Len(parts) = 2
                       /\ parts[1] = <<"r">> => Len(Split(parts[2], "@")) = 2
                IN  (Len(output) > 0 /\ ~wellFormed)
                    => /\ st.exc = "none"
                       /\ st.job.status_msg.text = MsgOdd(<<>>).text


\* C22: for a submitted job whose entry is absent from the listing from
\* some point on, repeated status polling eventually leaves the handle
\* neither Waiting nor Running, whatever state it was last observed in.
C22_AbsentEntryLeavesQueueStates ==
    (joblist[1].submitted /\ last.op = "status_absent")
    ~> (~Waiting(joblist[1]) /\ ~Running(joblist[1]))


\* C23: over any sequence of submit() calls on one ClusterJob qsub exits
\* successfully at most once: a submit() on a handle that is Submitted does
\* not invoke qsub, and every submit() whose qsub exited with status 0
\* leaves the handle Submitted with a job identifier, also when the output
\* of qsub holds no digits.
C23_AcceptedSubmissionIsTracked ==
    [][\A j \in Jobs :
          IsCall("submit", j)
          => /\ joblist[j].submitted => cli' = <<>>
             /\ (Len(cli') = 1 /\ cli'[1].tool = "qsub" /\ cli'[1].rc = 0)
                => (joblist'[j].submitted /\ joblist'[j].jobid # None)]_vars


\* C24: when two processes of one user submit a job each at the same time,
\* every invocation of qsub is handed the rendered script of the job being
\* submitted, and neither submission fails or loses its script because of
\* the other: qsub never finds the script file missing and the cleanup
\* never finds it already removed.
C24_ConcurrentSubmitsIsolated ==
    \A p \in DOMAIN procs :
       /\ procs[p].call # <<>>
          => procs[p].call[1].script = <<joblist[p].qsub_script>>
       /\ procs[p].exc # "OSError"


\* C25: for every value of submit()'s sh_file argument, the path handed to
\* qsub is the path the rendered script was written to during that call
\* (so qsub is handed that script), and the path removed at cleanup is that
\* same path (so with cleanup no file is left at it after a submission).
C25_ShFileWrittenSubmittedRemoved ==
    \A k \in 1..Len(cli) :
       cli[k].tool = "qsub"
       => /\ cli[k].script = <<preCli[1].qsub_script>>
          /\ (raised = "none" /\ joblist[last.j].cleanup_qsub_job)
             => files[cli[k].arg] = NoFile


\* C26: for every command given as a list of n >= 1 command
\* strings, the rendered script runs each command exactly once, in list
\* order.
C26_EachCommandRunsOnce ==
    (last.op = "ClusterJob" /\ Len(last.value) >= 1)
    => (raised = "none" /\ ShellCommands(last.script) = last.value)


\* C27: the state a ClusterJob derives on a status poll depends only on the
\* listing entry of its own job identifier: two listings that agree on that
\* job's entry give the same resulting state, whatever other jobs they
\* contain, and a handle with no job identifier derives no state from any
\* listing.  The entry of a job is the lines whose first field, the
\* job-ID, is its identifier.
C27_StateDependsOnOwnEntryOnly ==
    \A j \in Jobs :
       /\ \A l1 \in Listings, l2 \in Listings :
             LET IsOwn(line) == line[1] = joblist[j].jobid
             IN
             SelectSeq(l1, IsOwn) = SelectSeq(l2, IsOwn)
             => /\ Flags(CheckStatus(joblist[j], l1).job)
                   = Flags(CheckStatus(joblist[j], l2).job)
                /\ CheckStatus(joblist[j], l1).exc
                   = CheckStatus(joblist[j], l2).exc
       /\ joblist[j].jobid = None
          => \A l \in Listings :
                Flags(CheckStatus(joblist[j], l).job) = Flags(joblist[j])


\* C28: checking that a destination is writable (check_destination_writable,
\* and through it enforce_path_exists and
\* Maxfilter.check_input_output_mapping) leaves every file that existed
\* before the check present and unmodified.
C28_WritableCheckKeepsFiles ==
    [][\A p \in DOMAIN files :
          files[p] # NoFile => files'[p] = files[p]]_vars


\* C29: the rendered script has a parallel-environment directive, asking
\* for N slots of 'threaded', if and only if the job's final thread count N
\* is greater than 1, and construction fails whenever N > 1 and the queue
\* does not list the 'threaded' parallel environment.
C29_ThreadedDirectiveIffThreads ==
    LET ListsPe(queue, pe_name) ==
           pe_name \in {PeLines[queue][k] : k \in 2..Len(PeLines[queue])}
    IN
    (last.op = "ClusterJob" /\ last.req.extra = {})
    => /\ raised = "none"
          => LET job == last.job[1]
                 N == job.n_threads
             IN  /\ N > 1 => job.qsub_script.opt_threaded_flag
                             = <<"#$", "-pe", "threaded", N>>
                 /\ N <= 1 => job.qsub_script.opt_threaded_flag = <<>>
                 /\ N > 1 => ListsPe(job.queue, "threaded")
                 /\ N = ThreadCount(last.req).val
       /\ (/\ ValidRequest(last.req, last.env)
           /\ ThreadCount(last.req).exc = "none"
           /\ ThreadCount(last.req).val > 1
           /\ ~ListsPe(last.req.queue, "threaded"))
          => (raised = "ValueError" /\ last.job = Absent)

\* a request for two threads on a queue without the 'threaded' parallel
\* environment was refused
C29_Witness ==
    /\ last.op = "ClusterJob" /\ raised = "ValueError"
    /\ ValidRequest(last.req, last.env) /\ last.req.extra = {}
    /\ last.req.total_memory = Absent /\ last.req.n_threads = 2
    /\ last.req.queue = "long.q"


\* C30: Cluster.get_load_dict returns one load record (name, load, used,
\* available, total) for every queue line of the load listing, that is for
\* every line after the two header lines, in listing order.
C30_OneRecordPerQueueLine ==
    last.op = "get_load_dict"
    => /\ raised = "none"
       /\ last.q_list
          = [k \in 1..Len(last.queues) |->
                LET cols == LoadColumns[last.queues[k]]
                IN  [name |-> cols[1], load |-> cols[2], used |-> cols[3],
                     avail |-> cols[5], total |-> cols[6]]]

====
